---- MODULE Spec2Model ----
(***************************************************************************)
(* A model of the todo-vue task store: the composable useTarefas          *)
(* (composables/useTarefas.js), the reactive list `tarefas`, the filter   *)
(* `filtro`, the computed view `tarefasFiltradas`, and the deep watcher   *)
(* that writes the list to localStorage under the key 'tarefas'.          *)
(*                                                                         *)
(* Text is modelled as a sequence of characters, a task as a record       *)
(* [id, titulo, concluida], and a stored string by its JSON shape: the     *)
(* array of object literals, each a sequence of <<name, value>> members   *)
(* in the order JSON.stringify emits them.                                *)
(*                                                                         *)
(* The App component also calls useTema (composables/useTema.js: the ref   *)
(* `tema`, its watcher, the key 'tema' and the class 'dark' of the         *)
(* document root) and useContador (composables/useContador.js: the ref     *)
(* `contador` and its interval).                                           *)
(***************************************************************************)
EXTENDS Integers, Sequences, FiniteSets, TLC

\* ------------------------------------------------------------------ bounds
\* the list holds at most this many tasks
MaxTarefas == 2
\* Date.now() takes the values 1..MaxRelogio
MaxRelogio == 2
\* at most this many changes in one tick, before the watcher job runs
MaxLote == 2

\* setInterval fires at most this many times
MaxContador == 3

\* The titles handed to adicionarTarefa: empty, blank, and a word with
\* whitespace on both sides.
Entradas == { <<>>, <<" ">>, <<" ", "a", " ">> }

VARIABLES
    localStorage,   \* the browser store: key -> stored string, or null
    tarefas,        \* the reactive array of tasks
    filtro,         \* the ref 'todas' | 'ativas' | 'concluidas'
    pendente,       \* number of changes since the watcher job last ran
    agora,          \* the value Date.now() returns
    erro,           \* the exception raised since the page load, or "nenhum"
    valor,          \* what JSON.parse returned: "array", "null", "numero", "objeto"
    chamada,        \* the last call made on a composable, with its locals
    cache,          \* the value the computed tarefasFiltradas holds
    sujo,           \* the computed is dirty: its next read runs the getter
    tema,           \* the ref 'claro' | 'escuro'
    temaAntigo,     \* the value the theme watcher saw last
    temaPendente,   \* the theme watcher's job is queued
    classeDark,     \* document.documentElement has the class 'dark'
    contador,       \* the ref contador
    intervalo       \* the interval of useContador is running

varsTema == <<tema, temaAntigo, temaPendente, classeDark>>

varsContador == <<contador, intervalo>>

varsComputed == <<cache, sujo>>

vars == <<localStorage, tarefas, filtro, pendente, agora, erro, valor, chamada,
          cache, sujo, tema, temaAntigo, temaPendente, classeDark, contador, intervalo>>

\* ------------------------------------------------------------ stored text
\* localStorage.getItem of a key never set
Nulo == [tipo |-> "null", forma |-> "null", itens |-> <<>>]
\* the empty string ''
TextoVazio == [tipo |-> "string", forma |-> "vazia", itens |-> <<>>]
\* a string that is not JSON, such as '[{"id":'
TextoMalformado == [tipo |-> "string", forma |-> "malformada", itens |-> <<>>]
\* the JSON text of an array of object literals
TextoArray(itens) == [tipo |-> "string", forma |-> "array", itens |-> itens]

\* JSON text of a value that is not an array: 'null', a number such as '5',
\* or an object such as '{"a":1}'; v names which
TextoNaoArray(v) == [tipo |-> "string", forma |-> "naoarray", itens |-> <<v>>]

\* the text of a single word, such as 'claro'
TextoPalavra(p) == [tipo |-> "string", forma |-> "palavra", itens |-> <<p>>]

\* the JavaScript string a stored word is read back as
Palavra(texto) == texto.itens[1]

\* JavaScript truthiness of a value that is a string or null
Verdadeiro(texto) == texto.tipo = "string" /\ texto.forma # "vazia"

\* a || b
Ou(a, b) == IF Verdadeiro(a) THEN a ELSE b

\* ------------------------------------------------------------------- text
EhEspaco(c) == c = " "

RECURSIVE TrimInicio(_)
TrimInicio(s) ==
    IF s = <<>> THEN <<>>
    ELSE IF EhEspaco(Head(s)) THEN TrimInicio(Tail(s)) ELSE s

RECURSIVE TrimFim(_)
TrimFim(s) ==
    IF s = <<>> THEN <<>>
    ELSE IF EhEspaco(s[Len(s)]) THEN TrimFim(SubSeq(s, 1, Len(s) - 1)) ELSE s

\* the test `if (titulo)` in place of `if (titulo.trim())`
TrimAusente(s) == s

\* String.prototype.trim
Trim(s) == TrimFim(TrimInicio(s))

\* a guard that lets every title through
TextoSempreVerdadeiro(s) == TRUE

\* truthiness of a string: non-empty
TextoNaoVazio(s) == s # <<>>

\* ------------------------------------------------------------------- JSON
\* JSON.stringify of one task: its own properties in creation order
ObjetoLiteral(t) ==
    << <<"id", t.id>>, <<"titulo", t.titulo>>, <<"concluida", t.concluida>> >>

\* a serialization of the newest task alone
JSONstringifyUltima(ts) ==
    TextoArray([i \in 1..(IF ts = <<>> THEN 0 ELSE 1) |-> ObjetoLiteral(ts[Len(ts)])])

\* JSON.stringify(novasTarefas)
JSONstringify(ts) == TextoArray([i \in 1..Len(ts) |-> ObjetoLiteral(ts[i])])

\* the value of member `nome` of an object literal
Membro(obj, nome) == obj[CHOOSE j \in 1..Len(obj) : obj[j][1] = nome][2]

\* JSON.parse throws SyntaxError on text that is not JSON
JSONparseLanca(texto) == texto.forma \notin {"array", "naoarray"}

\* the kind of value JSON.parse returns for a JSON text
JSONparseTipo(texto) == IF texto.forma = "array" THEN "array" ELSE texto.itens[1]

\* a parse that rebuilds every task as not concluded
JSONparseSemConcluida(texto) ==
    [i \in 1..Len(texto.itens) |->
        [id        |-> Membro(texto.itens[i], "id"),
         titulo    |-> Membro(texto.itens[i], "titulo"),
         concluida |-> FALSE]]

\* JSON.parse of the text of an array of task objects
JSONparse(texto) ==
    [i \in 1..Len(texto.itens) |->
        [id        |-> Membro(texto.itens[i], "id"),
         titulo    |-> Membro(texto.itens[i], "titulo"),
         concluida |-> Membro(texto.itens[i], "concluida")]]

\* ------------------------------------------------------------ array methods
\* a filter that collects the kept elements last to first
RECURSIVE FilterInvertido(_, _)
FilterInvertido(ts, manter) ==
    IF ts = <<>> THEN <<>>
    ELSE IF Head(ts).concluida = manter
         THEN FilterInvertido(Tail(ts), manter) \o <<Head(ts)>>
         ELSE FilterInvertido(Tail(ts), manter)

\* Array.prototype.filter, visiting the elements first to last
RECURSIVE Filter(_, _)
Filter(ts, manter) ==
    IF ts = <<>> THEN <<>>
    ELSE IF Head(ts).concluida = manter
         THEN <<Head(ts)>> \o Filter(Tail(ts), manter)
         ELSE Filter(Tail(ts), manter)

\* findIndex whose -1 reaches splice(-1, 1), which counts from the end
FindIndexSemGuarda(ts, id) ==
    IF \E i \in 1..Len(ts) : ts[i].id = id
    THEN CHOOSE i \in 1..Len(ts) :
            ts[i].id = id /\ \A j \in 1..(i - 1) : ts[j].id # id
    ELSE Len(ts)

\* Array.prototype.findIndex on tarefa.id === id: the first match, 1-based,
\* with 0 standing for JavaScript's -1
FindIndex(ts, id) ==
    IF \E i \in 1..Len(ts) : ts[i].id = id
    THEN CHOOSE i \in 1..Len(ts) :
            ts[i].id = id /\ \A j \in 1..(i - 1) : ts[j].id # id
    ELSE 0

\* tarefas.splice(indice): without a count, everything from indice on goes
SpliceAteFim(ts, indice) == SubSeq(ts, 1, indice - 1)

\* tarefas.splice(indice, 1)
Splice(ts, indice) == SubSeq(ts, 1, indice - 1) \o SubSeq(ts, indice + 1, Len(ts))

\* tarefas.unshift(t)
Unshift(ts, t) == <<t>> \o ts

\* tarefas.push(t)
Push(ts, t) == Append(ts, t)

\* ------------------------------------------------------------ the composable
Filtros == {"todas", "ativas", "concluidas"}

\* the case 'ativas' without the negation of tarefa.concluida
ComputedSemNegacao(ts, f) ==
    CASE f = "ativas"     -> Filter(ts, TRUE)
      [] f = "concluidas" -> Filter(ts, TRUE)
      [] OTHER            -> ts

\* the computed tarefasFiltradas, for a list and a value of filtro
Computed(ts, f) ==
    CASE f = "ativas"     -> Filter(ts, FALSE)
      [] f = "concluidas" -> Filter(ts, TRUE)
      [] OTHER            -> ts

tarefasFiltradas == Computed(tarefas, filtro)

\* the text useTarefas parses: localStorage.getItem('tarefas') || '[]'
TextoInicial(ls) == Ou(ls["tarefas"], TextoArray(<<>>))

\* a store that starts empty whatever is stored
CarregarVazio(ls) == <<>>

\* reactive(JSON.parse(...)): the list useTarefas starts with
Carregar(ls) == JSONparse(TextoInicial(ls))

\* the watcher without { deep: true }: a property of a task is not tracked
watchDisparaRaso(mutacao) == mutacao \in {"push", "splice"}

\* a watcher that also tracks the filter, as one watching tarefasFiltradas would
watchDisparaTambemFiltro(mutacao) == mutacao \in {"push", "splice", "set", "filtro"}

\* watch(tarefas, ..., { deep: true }): the mutations that queue the callback.
\* "push" and "splice" change the array itself, "set" a property of a task;
\* "filtro" is a write to the ref filtro.
watchDispara(mutacao) == mutacao \in {"push", "splice", "set"}

\* a computed that does not track tarefa.concluida
InvalidaSemConcluida(mutacao, f) ==
    IF mutacao = "filtro" THEN f # filtro
    ELSE filtro # "todas" /\ mutacao # "set"

\* The mutations that mark the computed dirty: they change what its getter
\* read when it last ran.  The getter always reads filtro.value (a write of
\* the same value changes nothing); it reads the array and the tasks'
\* concluida only in the branches that call filter.
Invalida(mutacao, f) ==
    IF mutacao = "filtro" THEN f # filtro
    ELSE filtro # "todas"

\* The computed after a mutation that leaves the list ts and the filter f.  A
\* dirty computed never hands out the value it holds, which is dropped here;
\* a clean one under 'todas' holds the reactive array itself.
ComputedApos(mutacao, ts, f) ==
    IF sujo \/ Invalida(mutacao, f)
    THEN cache' = <<>> /\ sujo' = TRUE
    ELSE cache' = (IF f = "todas" THEN ts ELSE cache) /\ sujo' = FALSE

Agendar(mutacao) == IF watchDispara(mutacao) THEN pendente + 1 ELSE pendente

Chamada(op, titulo, id, indice) ==
    [op |-> op, titulo |-> titulo, id |-> id, indice |-> indice]

\* The state useTarefas() leaves behind when called with the store ls.  When
\* JSON.parse throws, the exception leaves the caller without a store: the
\* list and the filter are then placeholders and no operation is enabled.
\* When JSON.parse returns a value that is not an array, reactive() and
\* watch() accept it without throwing, and tarefas is that value: valor
\* names it and the list is a placeholder.
Construido(ls) ==
    /\ pendente = 0
    /\ cache = <<>>
    /\ sujo = TRUE
    /\ chamada = Chamada("useTarefas", <<>>, 0, 0)
    /\ filtro = "todas"
    /\ IF JSONparseLanca(TextoInicial(ls))
       THEN erro = "SyntaxError" /\ valor = "array" /\ tarefas = <<>>
       ELSE /\ erro = "nenhum"
            /\ valor = JSONparseTipo(TextoInicial(ls))
            /\ tarefas = IF valor = "array" THEN Carregar(ls) ELSE <<>>

\* ------------------------------------------------------------------ useTema
Temas == {"claro", "escuro"}

\* a ref that starts as 'claro' without reading the store
TemaInicialFixo(ls) == "claro"

\* ref(localStorage.getItem('tema') || 'claro')
TemaInicial(ls) == Palavra(Ou(ls["tema"], TextoPalavra("claro")))

\* a toggle that names the dark theme by its class, 'dark'
AlternadoDark(t) == IF t = "claro" THEN "dark" ELSE "claro"

\* tema.value === 'claro' ? 'escuro' : 'claro'
Alternado(t) == IF t = "claro" THEN "escuro" ELSE "claro"

\* the class test turned around: 'dark' goes with the light theme
ClasseDarkInvertida(novoTema) == novoTema = "claro"

\* if (novoTema === 'escuro') classList.add('dark') else classList.remove('dark'):
\* whether the root element carries 'dark' afterwards
ClasseDark(novoTema) == novoTema = "escuro"

\* The state useTema() leaves behind on a fresh document, whose root element
\* has no class: the class is added when the initial theme is 'escuro'.
TemaConstruido(ls) ==
    /\ tema = TemaInicial(ls)
    /\ temaAntigo = TemaInicial(ls)
    /\ temaPendente = FALSE
    /\ classeDark = ClasseDark(TemaInicial(ls))

\* The state useContador() leaves behind: ref(0) and a running interval.
ContadorConstruido ==
    /\ contador = 0
    /\ intervalo = TRUE

\* A fresh browser profile: nothing stored.
Init ==
    /\ localStorage = [k \in {"tarefas", "tema"} |-> Nulo]
    /\ agora = 1
    /\ Construido(localStorage)
    /\ TemaConstruido(localStorage)
    /\ ContadorConstruido

\* A page load.  The watcher job is flushed in a microtask of the tick that
\* queued it, so no page load happens while a job is pending.
useTarefas ==
    /\ pendente = 0
    /\ pendente' = 0
    /\ cache' = <<>>
    /\ sujo' = TRUE
    /\ chamada' = Chamada("useTarefas", <<>>, 0, 0)
    /\ filtro' = "todas"
    /\ IF JSONparseLanca(TextoInicial(localStorage))
       THEN erro' = "SyntaxError" /\ valor' = "array" /\ tarefas' = <<>>
       ELSE /\ erro' = "nenhum"
            /\ valor' = JSONparseTipo(TextoInicial(localStorage))
            /\ tarefas' = IF valor' = "array" THEN Carregar(localStorage) ELSE <<>>
    /\ UNCHANGED <<localStorage, agora>>
    /\ UNCHANGED <<varsTema, varsContador>>

\* On a value that is not an array, tarefas.push is a TypeError: null has
\* no properties, and a number or a plain object has no method push.
adicionarTarefa(titulo) ==
    /\ erro # "SyntaxError"
    /\ chamada' = Chamada("adicionarTarefa", titulo, 0, 0)
    /\ IF TextoNaoVazio(Trim(titulo))
       THEN IF valor = "array"
            THEN /\ Len(tarefas) < MaxTarefas
                 /\ pendente < MaxLote
                 /\ tarefas' = Push(tarefas, [id |-> agora, titulo |-> titulo, concluida |-> FALSE])
                 /\ pendente' = Agendar("push")
                 /\ ComputedApos("push", tarefas', filtro)
                 /\ UNCHANGED erro
            ELSE /\ erro' = "TypeError"
                 /\ UNCHANGED <<tarefas, pendente, varsComputed>>
       ELSE UNCHANGED <<tarefas, pendente, varsComputed, erro>>
    /\ UNCHANGED <<localStorage, filtro, agora, valor>>
    /\ UNCHANGED <<varsTema, varsContador>>

\* On a value that is not an array, tarefas.findIndex is a TypeError and
\* indice is never assigned.
removerTarefa(id) ==
    /\ erro # "SyntaxError"
    /\ IF valor = "array"
       THEN LET indice == FindIndex(tarefas, id) IN
            /\ chamada' = Chamada("removerTarefa", <<>>, id, indice)
            /\ IF indice # 0
               THEN /\ pendente < MaxLote
                    /\ tarefas' = Splice(tarefas, indice)
                    /\ pendente' = Agendar("splice")
                    /\ ComputedApos("splice", tarefas', filtro)
               ELSE UNCHANGED <<tarefas, pendente, varsComputed>>
            /\ UNCHANGED erro
       ELSE /\ chamada' = Chamada("removerTarefa", <<>>, id, 0)
            /\ erro' = "TypeError"
            /\ UNCHANGED <<tarefas, pendente, varsComputed>>
    /\ UNCHANGED <<localStorage, filtro, agora, valor>>
    /\ UNCHANGED <<varsTema, varsContador>>

\* a filter button: tarefasApi.filtro.value = f.  The watcher's source is
\* tarefas, so the write to filtro is a mutation it does not track.
definirFiltro(f) ==
    /\ erro # "SyntaxError"
    /\ filtro' = f
    /\ pendente' = Agendar("filtro")
    /\ ComputedApos("filtro", tarefas, f)
    /\ chamada' = Chamada("filtro", <<>>, 0, 0)
    /\ UNCHANGED <<localStorage, tarefas, agora, erro, valor>>
    /\ UNCHANGED <<varsTema, varsContador>>

\* the presentation layer writes tarefa.concluida of the task at position i
alternarConcluida(i) ==
    /\ erro # "SyntaxError"
    /\ valor = "array"
    /\ i \in 1..Len(tarefas)
    /\ pendente < MaxLote
    /\ tarefas' = [tarefas EXCEPT ![i].concluida = ~@]
    /\ pendente' = Agendar("set")
    /\ ComputedApos("set", tarefas', filtro)
    /\ chamada' = Chamada("concluida", <<>>, 0, i)
    /\ UNCHANGED <<localStorage, filtro, agora, erro, valor>>
    /\ UNCHANGED <<varsTema, varsContador>>

\* a read of tarefasFiltradas.value: a dirty computed runs its getter and
\* keeps the result, a clean one returns what it holds.  On a value that is
\* not an array the default branch returns the value as it is, and the other
\* two call tarefas.filter, a TypeError that leaves the computed dirty.
lerTarefasFiltradas ==
    /\ erro # "SyntaxError"
    /\ sujo
    /\ IF valor = "array" \/ filtro = "todas"
       THEN /\ cache' = Computed(tarefas, filtro)
            /\ sujo' = FALSE
            /\ UNCHANGED erro
       ELSE /\ erro' = "TypeError"
            /\ UNCHANGED varsComputed
    /\ UNCHANGED <<localStorage, tarefas, filtro, pendente, agora, valor, chamada>>
    /\ UNCHANGED <<varsTema, varsContador>>

\* the watcher callback, run once per tick in which the list changed; the
\* record of the call keeps, as indice, the number of changes the run covers
watchCallback ==
    /\ pendente > 0
    /\ localStorage' = [localStorage EXCEPT !["tarefas"] = JSONstringify(tarefas)]
    /\ pendente' = 0
    /\ chamada' = Chamada("watch", <<>>, 0, pendente)
    /\ UNCHANGED <<tarefas, filtro, agora, erro, valor, varsComputed>>
    /\ UNCHANGED <<varsTema, varsContador>>

\* the clock advances by a millisecond
passarTempo ==
    /\ agora < MaxRelogio
    /\ agora' = agora + 1
    /\ UNCHANGED <<localStorage, tarefas, filtro, pendente, erro, valor, chamada, varsComputed>>
    /\ UNCHANGED <<varsTema, varsContador>>

Next ==
    \/ useTarefas
    \/ \E titulo \in Entradas : adicionarTarefa(titulo)
    \/ \E id \in 1..MaxRelogio : removerTarefa(id)
    \/ \E f \in Filtros : definirFiltro(f)
    \/ \E i \in 1..MaxTarefas : alternarConcluida(i)
    \/ lerTarefasFiltradas
    \/ watchCallback
    \/ passarTempo

Spec == Init /\ [][Next]_vars

\* --------------------------------------------------- useTema and useContador
\* A page load calling useTema on a fresh document.  The theme watcher's job
\* runs in a microtask of the tick that queued it, so none is pending then.
useTema ==
    /\ ~temaPendente
    /\ tema' = TemaInicial(localStorage)
    /\ temaAntigo' = TemaInicial(localStorage)
    /\ temaPendente' = FALSE
    /\ classeDark' = ClasseDark(TemaInicial(localStorage))
    /\ chamada' = Chamada("useTema", <<>>, 0, 0)
    /\ UNCHANGED <<localStorage, tarefas, filtro, pendente, agora, erro, valor, varsComputed, varsContador>>

\* alternarTema: the write to tema.value queues the watcher's job
alternarTema ==
    /\ tema' = Alternado(tema)
    /\ temaPendente' = TRUE
    /\ chamada' = Chamada("alternarTema", <<>>, 0, 0)
    /\ UNCHANGED <<localStorage, tarefas, filtro, pendente, agora, erro, valor,
                   varsComputed, temaAntigo, classeDark, varsContador>>

\* a theme callback that empties the store before it writes: localStorage.clear()
temaCallbackLimpa ==
    /\ temaPendente
    /\ temaPendente' = FALSE
    /\ temaAntigo' = tema
    /\ IF tema # temaAntigo
       THEN /\ localStorage' = [k \in {"tarefas", "tema"} |->
                                  IF k = "tema" THEN TextoPalavra(tema) ELSE Nulo]
            /\ classeDark' = ClasseDark(tema)
       ELSE UNCHANGED <<localStorage, classeDark>>
    /\ UNCHANGED <<tarefas, filtro, pendente, agora, erro, valor, chamada, varsComputed, tema, varsContador>>

\* The theme watcher's job: the callback runs when the value differs from
\* the one seen last; it stores the theme and sets or clears the class 'dark'.
temaCallback ==
    /\ temaPendente
    /\ temaPendente' = FALSE
    /\ temaAntigo' = tema
    /\ IF tema # temaAntigo
       THEN /\ localStorage' = [localStorage EXCEPT !["tema"] = TextoPalavra(tema)]
            /\ classeDark' = ClasseDark(tema)
       ELSE UNCHANGED <<localStorage, classeDark>>
    /\ UNCHANGED <<tarefas, filtro, pendente, agora, erro, valor, chamada, varsComputed, tema, varsContador>>

\* the component is mounted again: a new counter and a new interval
useContador ==
    /\ ~intervalo
    /\ contador' = 0
    /\ intervalo' = TRUE
    /\ chamada' = Chamada("useContador", <<>>, 0, 0)
    /\ UNCHANGED <<localStorage, tarefas, filtro, pendente, agora, erro, valor, varsComputed, varsTema>>

\* the interval fires: contador.value++
tiquetaque ==
    /\ intervalo
    /\ contador < MaxContador
    /\ contador' = contador + 1
    /\ UNCHANGED <<localStorage, tarefas, filtro, pendente, agora, erro, valor, chamada,
                   varsComputed, varsTema, intervalo>>

\* an unmount hook that leaves the interval running
desmontarSemLimpar ==
    /\ intervalo
    /\ intervalo' = intervalo
    /\ chamada' = Chamada("onUnmounted", <<>>, 0, 0)
    /\ UNCHANGED <<localStorage, tarefas, filtro, pendente, agora, erro, valor,
                   varsComputed, varsTema, contador>>

\* onUnmounted: clearInterval(intervalo)
desmontar ==
    /\ intervalo
    /\ intervalo' = FALSE
    /\ chamada' = Chamada("onUnmounted", <<>>, 0, 0)
    /\ UNCHANGED <<localStorage, tarefas, filtro, pendente, agora, erro, valor,
                   varsComputed, varsTema, contador>>

NextUtil ==
    \/ useTema
    \/ alternarTema
    \/ temaCallback
    \/ useContador
    \/ tiquetaque
    \/ desmontar

\* The theme and the counter of the App component, from a fresh profile.
SpecUtil == Init /\ [][NextUtil]_vars

\* One mounted App: the task store, the theme and the counter side by side.
\* The operations of the three composables interleave in any order.
NextApp ==
    \/ \E titulo \in Entradas : adicionarTarefa(titulo)
    \/ \E id \in 1..MaxRelogio : removerTarefa(id)
    \/ \E f \in Filtros : definirFiltro(f)
    \/ \E i \in 1..MaxTarefas : alternarConcluida(i)
    \/ watchCallback
    \/ alternarTema
    \/ temaCallback
    \/ tiquetaque

SpecApp == Init /\ [][NextApp]_vars

\* The watcher job is queued on the scheduler's microtask queue, which the
\* browser drains at the end of the tick: a pending callback does run.
FairSpec == Spec /\ WF_vars(watchCallback)

\* Any content of the 'tarefas' key: never set, empty, not JSON, JSON of a
\* value that is not an array, or the text of a list an earlier session wrote.
ArmazenadosIniciais ==
    { Nulo, TextoVazio, TextoMalformado,
      TextoNaoArray("null"), TextoNaoArray("numero"), TextoNaoArray("objeto"),
      JSONstringify(<<>>),
      JSONstringify(<<[id |-> 1, titulo |-> <<" ", "a", " ">>, concluida |-> TRUE]>>) }

InitQualquer ==
    /\ localStorage \in { [k \in {"tarefas", "tema"} |-> IF k = "tarefas" THEN a ELSE Nulo] :
                            a \in ArmazenadosIniciais }
    /\ agora = 1
    /\ Construido(localStorage)
    /\ TemaConstruido(localStorage)
    /\ ContadorConstruido

SpecQualquer == InitQualquer /\ [][Next]_vars

\* ------------------------------------------------------------ vocabulary
\* a text with no character other than whitespace
Branco(t) == \A i \in 1..Len(t) : t[i] = " "

Ultima(ts) == ts[Len(ts)]

Conjunto(ts) == { ts[i] : i \in 1..Len(ts) }

\* the positions of ts whose task has concluida = b, and the k-th of them
Posicoes(ts, b) == { i \in 1..Len(ts) : ts[i].concluida = b }

Kesima(ps, k) == CHOOSE i \in ps : Cardinality({ j \in ps : j < i }) = k - 1

\* the subsequence of ts of the tasks with concluida = b, in the order of ts
Subsequencia(ts, b) ==
    [k \in 1..Cardinality(Posicoes(ts, b)) |-> ts[Kesima(Posicoes(ts, b), k)]]

\* the stored text is the JSON array of exactly the tasks of ts, in order
Representa(texto, ts) ==
    /\ texto.forma = "array"
    /\ Len(texto.itens) = Len(ts)
    /\ \A i \in 1..Len(ts) :
          texto.itens[i] =
             << <<"id", ts[i].id>>, <<"titulo", ts[i].titulo>>,
                <<"concluida", ts[i].concluida>> >>

\* the store and the list agree: nothing was ever written and the list is
\* empty, or the stored text is the serialization of the list
Sincronizado ==
    IF localStorage["tarefas"] = Nulo
    THEN tarefas = <<>>
    ELSE Representa(localStorage["tarefas"], tarefas)

\* ------------------------------------------------------------------ claims
\* C1: adicionarTarefa(t) appends exactly one task when t has a character
\* other than whitespace, and leaves the list unchanged when t is empty or blank.
C1_AdicionaSeNaoBranco ==
    [][\A t \in Entradas :
          adicionarTarefa(t) =>
             IF Branco(t)
             THEN tarefas' = tarefas
             ELSE /\ Len(tarefas') = Len(tarefas) + 1
                  /\ SubSeq(tarefas', 1, Len(tarefas)) = tarefas]_vars

C1_Testemunha ==
    /\ chamada.op = "adicionarTarefa"
    /\ ~Branco(chamada.titulo)
    /\ Len(tarefas) = 2
    /\ Ultima(tarefas).titulo = chamada.titulo

\* C2: after adicionarTarefa(t) with a non-blank t, the task appended carries
\* the title trim(t), with no leading or trailing whitespace.
C2_TituloAparado ==
    (chamada.op = "adicionarTarefa" /\ ~Branco(chamada.titulo)) =>
        /\ tarefas # <<>>
        /\ Ultima(tarefas).titulo = Trim(chamada.titulo)
        /\ Head(Ultima(tarefas).titulo) # " "
        /\ Ultima(Ultima(tarefas).titulo) # " "

\* C3: no two tasks of the list carry the same id.
C3_IdsUnicos ==
    \A i, j \in 1..Len(tarefas) : i # j => tarefas[i].id # tarefas[j].id

\* C4: whenever no watcher callback is pending the stored value is the
\* serialization of the list, and a pending callback leads to that.
C4_PersistenciaSincronizada ==
    /\ [](pendente = 0 => Sincronizado)
    /\ (pendente > 0) ~> (pendente = 0 /\ Representa(localStorage["tarefas"], tarefas))

C4_Testemunha ==
    /\ pendente = 0
    /\ chamada.op = "watch"
    /\ Len(tarefas) = 2
    /\ tarefas[2].concluida
    /\ Representa(localStorage["tarefas"], tarefas)

\* C5: a restart loads the list that was held just before it: the same tasks
\* in the same order with the same id, titulo and concluida.
C5_ReinicioPreservaLista ==
    [][useTarefas => (erro' = "nenhum" /\ tarefas' = tarefas)]_vars

C5_Testemunha ==
    /\ chamada.op = "useTarefas"
    /\ erro = "nenhum"
    /\ Len(tarefas) = 2
    /\ tarefas[1].concluida
    /\ ~tarefas[2].concluida
    /\ tarefas[2].titulo = <<" ", "a", " ">>

\* C6: with malformed text under the key, useTarefas yields a ready store with
\* an empty list and the filter 'todas', and throws nothing.
C6_MalformadoComoAusente ==
    (chamada.op = "useTarefas" /\ localStorage["tarefas"] = TextoMalformado) =>
        (erro = "nenhum" /\ tarefas = <<>> /\ filtro = "todas")

\* C7: the tasks shown under 'ativas' and under 'concluidas' are disjoint sets
\* whose union is the set of tasks shown under 'todas'.
C7_FiltrosParticionam ==
    /\ Conjunto(Computed(tarefas, "ativas")) \cap Conjunto(Computed(tarefas, "concluidas")) = {}
    /\ Conjunto(Computed(tarefas, "ativas")) \cup Conjunto(Computed(tarefas, "concluidas"))
          = Conjunto(Computed(tarefas, "todas"))
    /\ Conjunto(Computed(tarefas, "todas")) = Conjunto(tarefas)

C7_Testemunha ==
    /\ Len(tarefas) = 2
    /\ tarefas[1].concluida
    /\ ~tarefas[2].concluida
    /\ filtro = "ativas"

\* C8: the view under 'ativas' is the subsequence of the tasks not concluded,
\* under 'concluidas' the subsequence of the concluded ones, under 'todas' the
\* whole list, each in the order of the list.
C8_FiltroEhSubsequencia ==
    /\ Computed(tarefas, "ativas") = Subsequencia(tarefas, FALSE)
    /\ Computed(tarefas, "concluidas") = Subsequencia(tarefas, TRUE)
    /\ Computed(tarefas, "todas") = tarefas
    /\ tarefasFiltradas =
          IF filtro = "todas" THEN tarefas ELSE Subsequencia(tarefas, filtro = "concluidas")

C8_Testemunha ==
    /\ Len(tarefas) = 2
    /\ ~tarefas[1].concluida
    /\ ~tarefas[2].concluida
    /\ tarefas[1] # tarefas[2]
    /\ filtro = "ativas"
    /\ Len(tarefasFiltradas) = 2

\* C9: removerTarefa(id) with an id no task carries leaves the list as it was
\* and throws nothing.
C9_RemoverAusenteNaoMuda ==
    [][\A id \in 1..MaxRelogio :
          (removerTarefa(id) /\ \A i \in 1..Len(tarefas) : tarefas[i].id # id) =>
             (tarefas' = tarefas /\ erro' = "nenhum")]_vars

C9_Testemunha ==
    /\ chamada.op = "removerTarefa"
    /\ chamada.indice = 0
    /\ Len(tarefas) = 2
    /\ \A i \in 1..Len(tarefas) : tarefas[i].id # chamada.id

\* C10: right after removerTarefa(id) the list holds no task with that id.
C10_RemovidoNaoFica ==
    chamada.op = "removerTarefa" =>
        \A i \in 1..Len(tarefas) : tarefas[i].id # chamada.id

\* C11: adicionarTarefa(t) with an empty or blank t throws nothing, leaves the
\* list and the filter as they were, queues no watcher callback and writes
\* nothing to the store.
C11_BrancoNaoFazNada ==
    [][\A t \in Entradas :
          (adicionarTarefa(t) /\ Branco(t)) =>
             /\ erro' = "nenhum"
             /\ tarefas' = tarefas
             /\ filtro' = filtro
             /\ pendente' = pendente
             /\ localStorage' = localStorage]_vars

C11_Testemunha ==
    /\ chamada.op = "adicionarTarefa"
    /\ chamada.titulo = <<" ">>
    /\ Len(tarefas) = 1
    /\ filtro = "ativas"
    /\ pendente = 0
    /\ Representa(localStorage["tarefas"], tarefas)

\* C12 as stated: every change gets a write of its own, so k changes make k
\* writes: each run of the watcher callback covers exactly one change.
C12_UmaEscritaPorMudanca ==
    chamada.op = "watch" => chamada.indice = 1

\* C12 amended: every change of the list queues the watcher callback, only the
\* callback writes the key, and each run writes the whole list as it is when
\* the callback runs, covering all the changes of its tick.
C12_EscritaPorTick ==
    [][/\ (tarefas' # tarefas => pendente' > 0)
       /\ (localStorage'["tarefas"] # localStorage["tarefas"] => watchCallback)
       /\ (watchCallback =>
              /\ Representa(localStorage'["tarefas"], tarefas)
              /\ tarefas' = tarefas
              /\ pendente' = 0)]_vars

C12_Testemunha ==
    /\ chamada.op = "watch"
    /\ chamada.indice = 2
    /\ Len(tarefas) = 2
    /\ pendente = 0
    /\ Representa(localStorage["tarefas"], tarefas)

\* C13: after adicionarTarefa(t) with a non-blank t the new task is the last
\* element of the list, behind the tasks that were there, has concluida =
\* FALSE, and is in the views 'todas' and 'ativas' and not in 'concluidas'.
C13_NovaTarefaUltimaEAtiva ==
    [][\A t \in Entradas :
          (adicionarTarefa(t) /\ ~Branco(t)) =>
             /\ Len(tarefas') = Len(tarefas) + 1
             /\ SubSeq(tarefas', 1, Len(tarefas)) = tarefas
             /\ Ultima(tarefas').concluida = FALSE
             /\ Ultima(tarefas').id = agora
             /\ Ultima(tarefas') \in Conjunto(Computed(tarefas', "todas"))
             /\ Ultima(tarefas') \in Conjunto(Computed(tarefas', "ativas"))
             /\ Ultima(tarefas') \notin Conjunto(Computed(tarefas', "concluidas"))
             /\ Ultima(Computed(tarefas', "ativas")) = Ultima(tarefas')]_vars

C13_Testemunha ==
    /\ chamada.op = "adicionarTarefa"
    /\ ~Branco(chamada.titulo)
    /\ Len(tarefas) = 2
    /\ tarefas[1].concluida
    /\ tarefas[1].id < tarefas[2].id
    /\ filtro = "ativas"
    /\ tarefasFiltradas = <<tarefas[2]>>

\* C14: setting the filter replaces the filter alone: the list and the value
\* under the key 'tarefas' stay as they were and no watcher callback is queued.
C14_FiltroSoMudaFiltro ==
    [][\A f \in Filtros :
          definirFiltro(f) =>
             /\ filtro' = f
             /\ tarefas' = tarefas
             /\ localStorage' = localStorage
             /\ pendente' = pendente
             /\ erro' = erro]_vars

C14_Testemunha ==
    /\ chamada.op = "filtro"
    /\ filtro = "concluidas"
    /\ Len(tarefas) = 2
    /\ pendente = 0
    /\ Representa(localStorage["tarefas"], tarefas)

\* C15: after useTarefas returns, the filter is 'todas', whatever the store
\* holds and whatever the filter was before the page load.
C15_FiltroInicialTodas ==
    chamada.op = "useTarefas" => (erro = "nenhum" /\ filtro = "todas")

\* C16: the ids of the tasks strictly increase along the list.
C16_IdsCrescentes ==
    \A i, j \in 1..Len(tarefas) : i < j => tarefas[i].id < tarefas[j].id

\* the view a read of tarefasFiltradas returns in the current state: a dirty
\* computed runs its getter, a clean one returns what it holds
Leitura == IF sujo THEN Computed(tarefas, filtro) ELSE cache

\* the view the current list and filter call for
VistaAtual ==
    IF filtro = "todas" THEN tarefas ELSE Subsequencia(tarefas, filtro = "concluidas")

\* C17: a read of tarefasFiltradas returns the view of the current list under
\* the current filter: the value a clean computed holds is never stale.
C17_LeituraNuncaObsoleta ==
    /\ Leitura = VistaAtual
    /\ ~sujo => cache = VistaAtual

C17_Testemunha ==
    /\ ~sujo
    /\ chamada.op = "concluida"
    /\ filtro = "ativas"
    /\ Len(tarefas) = 2
    /\ tarefas[1].concluida
    /\ cache = <<tarefas[2]>>

\* C18: serializing the list, parsing the text and serializing the result
\* gives the text of the first serialization.
C18_IdaEVoltaIdempotente ==
    /\ ~JSONparseLanca(JSONstringify(tarefas))
    /\ JSONstringify(JSONparse(JSONstringify(tarefas))) = JSONstringify(tarefas)

C18_Testemunha ==
    /\ chamada.op = "useTarefas"
    /\ Len(tarefas) = 2
    /\ ~tarefas[1].concluida
    /\ tarefas[2].concluida
    /\ tarefas[1].id # tarefas[2].id
    /\ localStorage["tarefas"] = JSONstringify(tarefas)

\* the theme a stored value stands for: 'claro' when the key was never set
TemaGuardado ==
    IF localStorage["tema"] = Nulo THEN "claro" ELSE localStorage["tema"].itens[1]

\* C19: once the theme watcher has run, the store stands for the theme
\* selected last ('claro' when nothing is stored), and a page load starts
\* with that theme.
C19_TemaPersiste ==
    /\ [](~temaPendente => tema = TemaGuardado)
    /\ [][useTema => (tema' = tema /\ tema' = TemaGuardado)]_vars

C19_Testemunha ==
    /\ chamada.op = "useTema"
    /\ tema = "escuro"
    /\ ~temaPendente
    /\ localStorage["tema"] = TextoPalavra("escuro")

\* C20: the theme is 'claro' or 'escuro', the key 'tema' is unset or holds
\* one of the two, and alternarTema switches from one to the other.
C20_TemaUmDosDois ==
    /\ [](/\ tema \in {"claro", "escuro"}
          /\ localStorage["tema"] \in {Nulo, TextoPalavra("claro"), TextoPalavra("escuro")})
    /\ [][alternarTema =>
             /\ tema' \in {"claro", "escuro"}
             /\ tema' # tema]_vars

C20_Testemunha ==
    /\ chamada.op = "alternarTema"
    /\ tema = "claro"
    /\ temaPendente
    /\ localStorage["tema"] = TextoPalavra("escuro")

\* the position of the first task of ts carrying id
PrimeiraCom(ts, id) ==
    CHOOSE k \in 1..Len(ts) : ts[k].id = id /\ \A j \in 1..(k - 1) : ts[j].id # id

\* C23: removerTarefa(id) with an id in the list removes one task, the first
\* carrying that id; the tasks before it and after it stay as they were, in
\* their order, and the filter is unchanged.
C23_RemoveSoAPrimeira ==
    [][\A id \in 1..MaxRelogio :
          (removerTarefa(id) /\ \E i \in 1..Len(tarefas) : tarefas[i].id = id) =>
             /\ Len(tarefas') = Len(tarefas) - 1
             /\ \A j \in 1..(PrimeiraCom(tarefas, id) - 1) : tarefas'[j] = tarefas[j]
             /\ \A j \in PrimeiraCom(tarefas, id)..Len(tarefas') : tarefas'[j] = tarefas[j + 1]
             /\ filtro' = filtro
             /\ erro' = "nenhum"]_vars

C23_Testemunha ==
    /\ chamada.op = "removerTarefa"
    /\ chamada.indice = 1
    /\ Len(tarefas) = 1
    /\ tarefas[1].concluida
    /\ filtro = "concluidas"

\* C24: whenever no theme watcher job is pending, the root element carries
\* the class 'dark' exactly when the theme in memory is 'escuro'; so it is
\* after useTema, for either stored theme, and after any run of toggles.
C24_ClasseSegueTema ==
    ~temaPendente => (classeDark <=> tema = "escuro")

C24_Testemunha ==
    /\ chamada.op = "alternarTema"
    /\ ~temaPendente
    /\ tema = "escuro"
    /\ classeDark
    /\ localStorage["tema"] = TextoPalavra("escuro")

\* C25: a counter starts at 0 (at construction and on every new mount, which
\* makes a new counter); a tick of the timer adds exactly 1; no step other
\* than the making of a new counter lowers the value; unmounting clears the
\* timer, and from then on the value of that counter does not change.
C25_ContadorSoCresce ==
    /\ contador = 0
    /\ [][/\ useContador => contador' = 0
          /\ tiquetaque => contador' = contador + 1
          /\ ~useContador => contador' >= contador
          /\ desmontar => (~intervalo' /\ contador' = contador)
          /\ (~intervalo /\ ~useContador) => contador' = contador]_vars

C25_Testemunha ==
    /\ chamada.op = "onUnmounted"
    /\ ~intervalo
    /\ contador = 2

\* C22: when the key 'tarefas' holds JSON text of a value that is not an
\* array (null, a number, a plain object), the store starts as an empty
\* list, and adicionarTarefa, removerTarefa and reads of tarefasFiltradas
\* raise no error.
C22_NaoArrayComoVazio ==
    localStorage["tarefas"].forma = "naoarray" =>
        (valor = "array" /\ tarefas = <<>> /\ erro = "nenhum")

\* C21: a theme toggle, a run of the theme watcher and a tick of the counter
\* leave the task list, the filter and the value under 'tarefas' as they
\* were; adding, removing, concluding, setting the filter and the run of the
\* task watcher leave the theme, the value under 'tema' and the counter as they were.
C21_NaoInterferem ==
    [][/\ (alternarTema \/ temaCallback \/ tiquetaque) =>
             /\ tarefas' = tarefas
             /\ filtro' = filtro
             /\ localStorage'["tarefas"] = localStorage["tarefas"]
       /\ (\/ \E titulo \in Entradas : adicionarTarefa(titulo)
           \/ \E id \in 1..MaxRelogio : removerTarefa(id)
           \/ \E f \in Filtros : definirFiltro(f)
           \/ \E i \in 1..MaxTarefas : alternarConcluida(i)
           \/ watchCallback) =>
             /\ tema' = tema
             /\ localStorage'["tema"] = localStorage["tema"]
             /\ contador' = contador]_vars

C21_Testemunha ==
    /\ Len(tarefas) = 1
    /\ localStorage["tarefas"] = TextoArray(<<ObjetoLiteral(tarefas[1])>>)
    /\ filtro = "ativas"
    /\ tema = "escuro"
    /\ localStorage["tema"] = TextoPalavra("escuro")
    /\ contador = 2
    /\ pendente = 0
    /\ ~temaPendente

====
